---- MODULE Spec2Model ----
(***************************************************************************)
(* EcoEnergy "devices" domain (src/EcoEnergy/devices/models.py): the       *)
(* relational store declared by the Django models (foreign keys with their *)
(* on_delete policy, unique and check constraints) and the threshold       *)
(* resolver AlertRule.effective_thresholds_for with its per-instance memo. *)
(* The web layer of the "monitoreo" project (src/monitoreo/devices,        *)
(* src/monitoreo/dispositivos) follows it: the views create_device,        *)
(* device_detail and dispositivo, and the forms DeviceForm and             *)
(* DispositivoForm, over the tables of their own models.                   *)
(*                                                                         *)
(* A nullable column holds a set: {} is NULL, {v} is the value v.          *)
(* A table is a function from the primary keys of its rows to the rows.    *)
(* Columns that no foreign key, no check constraint and not the resolver   *)
(* reads are left out (status, timestamps, manufacturer, unit, message,    *)
(* image ...), and with them the single-column uniqueness of Category.name *)
(* and Product.sku and the (name, severity) uniqueness of AlertRule, which *)
(* no property below depends on.                                           *)
(***************************************************************************)
EXTENDS Integers, FiniteSets, Sequences

\* ---- bounds of the model ------------------------------------------------
NOrganization == 2
NCategory == 1
NProduct == 2
NAlertRule == 1
NLink == 2
NZone == 2
NDevice == 2
NMeasurement == 1
NAlertEvent == 1
NName == 1
MaxThreshold == 1
MaxEnergy == 0
MaxLookups == 2
NDevicesDevice == 2
NDispositivo == 1
NRef == 1
MaxNameLen == 3
MaxConsumption == 0

OrganizationIds == 1..NOrganization
CategoryIds == 1..NCategory
ProductIds == 1..NProduct
AlertRuleIds == 1..NAlertRule
LinkIds == 1..NLink
ZoneIds == 1..NZone
DeviceIds == 1..NDevice
MeasurementIds == 1..NMeasurement
AlertEventIds == 1..NAlertEvent
Names == 1..NName
Thresholds == 0..MaxThreshold
Energies == 0..MaxEnergy

\* null=True columns
Null == {}
Optional(S) == {Null} \cup {{v} : v \in S}
OptThreshold == Optional(Thresholds)

VARIABLES
    organization,       \* Organization rows (set of primary keys)
    category,           \* Category rows (set of primary keys)
    product,            \* table "product": id -> [category]
    alert_rule,         \* table "alert_rule": id -> defaults
    product_alert_rule, \* table "product_alert_rule": id -> link row
    zone,               \* table "zone": id -> [organization, name]
    device,             \* table "device": id -> [organization, zone, product, name]
    measurement,        \* table "measurement": id -> [device, energy_kwh, triggered_alert]
    alert_event,        \* table "alert_event": id -> [device, alert_rule]
    response,           \* outcome of the last store operation
    rule_obj,           \* the in-memory AlertRule instance held by the caller ({} if none)
    ret,                \* what the last effective_thresholds_for call returned ({} if none since)
    lookups,            \* number of ProductAlertRule queries issued so far
    devices_organization,    \* monitoreo "devices" app: Organization rows (primary keys)
    devices_category,        \* monitoreo "devices" app: Category rows (primary keys)
    devices_zone,            \* monitoreo "devices" app: Zone rows (primary keys)
    devices_device,          \* monitoreo "devices" app: table of Device, id -> row
    dispositivos_categoria,  \* "dispositivos" app: Categoria rows (primary keys)
    dispositivos_zona,       \* "dispositivos" app: Zona rows (primary keys)
    dispositivos_dispositivo,\* "dispositivos" app: table of Dispositivo, id -> row
    http                     \* the answer to the last request or form submission

tables == <<organization, category, product, alert_rule, product_alert_rule,
            zone, device, measurement, alert_event>>
resolver == <<rule_obj, ret, lookups>>
web_tables == <<devices_organization, devices_category, devices_zone, devices_device,
                dispositivos_categoria, dispositivos_zona, dispositivos_dispositivo>>
web == <<web_tables, http>>
vars == <<organization, category, product, alert_rule, product_alert_rule,
          zone, device, measurement, alert_event, response, rule_obj, ret, lookups,
          devices_organization, devices_category, devices_zone, devices_device,
          dispositivos_categoria, dispositivos_zona, dispositivos_dispositivo, http>>

\* ---- helpers ------------------------------------------------------------
\* f without the rows whose key is in S
Without(f, S) == [k \in DOMAIN f \ S |-> f[k]]
\* f with row r stored under key k
With(f, k, r) == [j \in DOMAIN f \cup {k} |-> IF j = k THEN r ELSE f[j]]

\* (mutation of MinLteMax: the check constraint is not enforced)
MinLteMaxUnchecked(mn, mx) == TRUE

\* CheckConstraint alert_rule_default_min_lte_max / par_min_lte_max:
\* min IS NULL OR max IS NULL OR min <= max
MinLteMax(mn, mx) == mn = Null \/ mx = Null \/ \A a \in mn, b \in mx : a <= b

\* (mutation of LinkUnique: the unique constraint is not enforced)
LinkUniqueUnchecked(p, r) == TRUE

\* UniqueConstraint uix_product_alert_unique: no other row with the pair
LinkUnique(p, r) ==
    \A l \in DOMAIN product_alert_rule :
        ~(product_alert_rule[l].product = p /\ product_alert_rule[l].alert_rule = r)

\* Zone.Meta.unique_together (organization, name)
ZoneUnique(o, n) ==
    \A z \in DOMAIN zone : ~(zone[z].organization = o /\ zone[z].name = n)

\* Device.Meta.unique_together (organization, name)
DeviceUnique(o, n) ==
    \A d \in DOMAIN device : ~(device[d].organization = o /\ device[d].name = n)

\* ---- rows that reference a row (reverse foreign keys) --------------------
ProductsOfCategory(c) == {p \in DOMAIN product : product[p].category = c}
LinksOfProduct(p) == {l \in DOMAIN product_alert_rule : product_alert_rule[l].product = p}
LinksOfAlertRule(r) == {l \in DOMAIN product_alert_rule : product_alert_rule[l].alert_rule = r}
ZonesOfOrganization(o) == {z \in DOMAIN zone : zone[z].organization = o}
DevicesOfOrganization(o) == {d \in DOMAIN device : device[d].organization = o}
DevicesOfZone(z) == {d \in DOMAIN device : device[d].zone = z}
DevicesOfProduct(p) == {d \in DOMAIN device : device[d].product = p}
MeasurementsOfDevice(d) == {m \in DOMAIN measurement : measurement[m].device = d}
MeasurementsOfAlertRule(r) == {m \in DOMAIN measurement : measurement[m].triggered_alert = {r}}
AlertEventsOfDevice(d) == {e \in DOMAIN alert_event : alert_event[e].device = d}
AlertEventsOfAlertRule(r) == {e \in DOMAIN alert_event : alert_event[e].alert_rule = r}

\* (mutations of the PROTECT collectors: the reference does not block)
ProtectProductNone(p) == {}
ProtectAlertRuleNone(r) == {}

\* on_delete=PROTECT: the rows that block the deletion
ProtectCategory(c) == ProductsOfCategory(c)
ProtectOrganization(o) == ZonesOfOrganization(o) \cup DevicesOfOrganization(o)
ProtectZone(z) == DevicesOfZone(z)
ProtectProduct(p) == DevicesOfProduct(p)
ProtectAlertRule(r) == AlertEventsOfAlertRule(r)

\* (mutation of CascadeAlertEvents: the events of a deleted device are kept)
CascadeAlertEventsNone(d) == {}

\* (mutation of CascadeLinksOfProduct: the links of a deleted product are kept)
CascadeLinksOfProductNone(p) == {}

\* on_delete=CASCADE: the rows deleted along
CascadeLinksOfProduct(p) == LinksOfProduct(p)
CascadeLinksOfAlertRule(r) == LinksOfAlertRule(r)
CascadeMeasurements(d) == MeasurementsOfDevice(d)
CascadeAlertEvents(d) == AlertEventsOfDevice(d)

\* (mutation of SetNullTriggered: CASCADE instead of SET_NULL)
SetNullTriggeredCascade(r) ==
    [m \in {k \in DOMAIN measurement : measurement[k].triggered_alert # {r}} |->
        measurement[m]]

\* on_delete=SET_NULL: Measurement.triggered_alert of the deleted rule
SetNullTriggered(r) ==
    [m \in DOMAIN measurement |->
        IF measurement[m].triggered_alert = {r}
        THEN [measurement[m] EXCEPT !.triggered_alert = Null]
        ELSE measurement[m]]

\* a rejected operation (django.db.IntegrityError naming the constraint, or
\* ProtectedError naming the model): every table is left as it was
Reject(err) == response' = err /\ UNCHANGED tables

\* any store operation ends the caller's pending resolver result
StoreStep == ret' = {} /\ UNCHANGED <<rule_obj, lookups>> /\ UNCHANGED web

\* a table without rows
Empty == [k \in {} |-> Null]

\* no request has been answered yet
NoResponse ==
    [view |-> "none", kind |-> "none", target |-> "none", errors |-> {}, object |-> {}]

\* the tables of the EcoEnergy "devices" domain are empty, nothing was resolved
EmptyStore ==
    /\ organization = {}
    /\ category = {}
    /\ product = Empty
    /\ alert_rule = Empty
    /\ product_alert_rule = Empty
    /\ zone = Empty
    /\ device = Empty
    /\ measurement = Empty
    /\ alert_event = Empty
    /\ response = "none"
    /\ rule_obj = {}
    /\ ret = {}
    /\ lookups = 0

\* the tables of the monitoreo project are empty, no request was made
EmptyWeb ==
    /\ devices_organization = {}
    /\ devices_category = {}
    /\ devices_zone = {}
    /\ devices_device = Empty
    /\ dispositivos_categoria = {}
    /\ dispositivos_zona = {}
    /\ dispositivos_dispositivo = Empty
    /\ http = NoResponse

Init == EmptyStore /\ EmptyWeb

\* ---- inserts -------------------------------------------------------------
CreateOrganization(o) ==
    /\ o \notin organization
    /\ organization' = organization \cup {o}
    /\ response' = "ok"
    /\ UNCHANGED <<category, product, alert_rule, product_alert_rule, zone, device,
                   measurement, alert_event>>
    /\ StoreStep

CreateCategory(c) ==
    /\ c \notin category
    /\ category' = category \cup {c}
    /\ response' = "ok"
    /\ UNCHANGED <<organization, product, alert_rule, product_alert_rule, zone, device,
                   measurement, alert_event>>
    /\ StoreStep

CreateProduct(id, c) ==
    /\ id \notin DOMAIN product
    /\ IF c \notin category
       THEN Reject("IntegrityError:foreign_key")
       ELSE /\ product' = With(product, id, [category |-> c])
            /\ response' = "ok"
            /\ UNCHANGED <<organization, category, alert_rule, product_alert_rule, zone,
                           device, measurement, alert_event>>
    /\ StoreStep

CreateAlertRule(id, mn, mx) ==
    /\ id \notin DOMAIN alert_rule
    /\ IF ~MinLteMax(mn, mx)
       THEN Reject("IntegrityError:alert_rule_default_min_lte_max")
       ELSE /\ alert_rule' = With(alert_rule, id,
                    [default_min_threshold |-> mn, default_max_threshold |-> mx])
            /\ response' = "ok"
            /\ UNCHANGED <<organization, category, product, product_alert_rule, zone,
                           device, measurement, alert_event>>
    /\ StoreStep

UpdateAlertRule(id, mn, mx) ==
    /\ id \in DOMAIN alert_rule
    /\ IF ~MinLteMax(mn, mx)
       THEN Reject("IntegrityError:alert_rule_default_min_lte_max")
       ELSE /\ alert_rule' = With(alert_rule, id,
                    [default_min_threshold |-> mn, default_max_threshold |-> mx])
            /\ response' = "ok"
            /\ UNCHANGED <<organization, category, product, product_alert_rule, zone,
                           device, measurement, alert_event>>
    /\ StoreStep

CreateProductAlertRule(id, p, r, mn, mx) ==
    /\ id \notin DOMAIN product_alert_rule
    /\ IF ~MinLteMax(mn, mx)
       THEN Reject("IntegrityError:par_min_lte_max")
       ELSE IF ~LinkUnique(p, r)
       THEN Reject("IntegrityError:uix_product_alert_unique")
       ELSE IF p \notin DOMAIN product \/ r \notin DOMAIN alert_rule
       THEN Reject("IntegrityError:foreign_key")
       ELSE /\ product_alert_rule' = With(product_alert_rule, id,
                    [product |-> p, alert_rule |-> r,
                     min_threshold |-> mn, max_threshold |-> mx])
            /\ response' = "ok"
            /\ UNCHANGED <<organization, category, product, alert_rule, zone, device,
                           measurement, alert_event>>
    /\ StoreStep

UpdateProductAlertRule(id, mn, mx) ==
    /\ id \in DOMAIN product_alert_rule
    /\ IF ~MinLteMax(mn, mx)
       THEN Reject("IntegrityError:par_min_lte_max")
       ELSE /\ product_alert_rule' = [product_alert_rule EXCEPT
                    ![id].min_threshold = mn, ![id].max_threshold = mx]
            /\ response' = "ok"
            /\ UNCHANGED <<organization, category, product, alert_rule, zone, device,
                           measurement, alert_event>>
    /\ StoreStep

CreateZone(id, o, n) ==
    /\ id \notin DOMAIN zone
    /\ IF ~ZoneUnique(o, n)
       THEN Reject("IntegrityError:unique(zone.organization,zone.name)")
       ELSE IF o \notin organization
       THEN Reject("IntegrityError:foreign_key")
       ELSE /\ zone' = With(zone, id, [organization |-> o, name |-> n])
            /\ response' = "ok"
            /\ UNCHANGED <<organization, category, product, alert_rule,
                           product_alert_rule, device, measurement, alert_event>>
    /\ StoreStep

CreateDevice(id, o, z, p, n) ==
    /\ id \notin DOMAIN device
    /\ IF ~DeviceUnique(o, n)
       THEN Reject("IntegrityError:unique(device.organization,device.name)")
       ELSE IF o \notin organization \/ z \notin DOMAIN zone \/ p \notin DOMAIN product
       THEN Reject("IntegrityError:foreign_key")
       ELSE /\ device' = With(device, id,
                    [organization |-> o, zone |-> z, product |-> p, name |-> n])
            /\ response' = "ok"
            /\ UNCHANGED <<organization, category, product, alert_rule,
                           product_alert_rule, zone, measurement, alert_event>>
    /\ StoreStep

CreateMeasurement(id, d, e, a) ==
    /\ id \notin DOMAIN measurement
    /\ IF d \notin DOMAIN device \/ ~(a \subseteq DOMAIN alert_rule)
       THEN Reject("IntegrityError:foreign_key")
       ELSE /\ measurement' = With(measurement, id,
                    [device |-> d, energy_kwh |-> e, triggered_alert |-> a])
            /\ response' = "ok"
            /\ UNCHANGED <<organization, category, product, alert_rule,
                           product_alert_rule, zone, device, alert_event>>
    /\ StoreStep

CreateAlertEvent(id, d, r) ==
    /\ id \notin DOMAIN alert_event
    /\ IF d \notin DOMAIN device \/ r \notin DOMAIN alert_rule
       THEN Reject("IntegrityError:foreign_key")
       ELSE /\ alert_event' = With(alert_event, id, [device |-> d, alert_rule |-> r])
            /\ response' = "ok"
            /\ UNCHANGED <<organization, category, product, alert_rule,
                           product_alert_rule, zone, device, measurement>>
    /\ StoreStep

\* ---- deletes (Model.delete(): collect, then delete) ------------------------
DeleteOrganization(o) ==
    /\ o \in organization
    /\ IF ProtectOrganization(o) # {}
       THEN Reject("ProtectedError:Organization")
       ELSE /\ organization' = organization \ {o}
            /\ response' = "deleted:Organization"
            /\ UNCHANGED <<category, product, alert_rule, product_alert_rule, zone,
                           device, measurement, alert_event>>
    /\ StoreStep

DeleteCategory(c) ==
    /\ c \in category
    /\ IF ProtectCategory(c) # {}
       THEN Reject("ProtectedError:Category")
       ELSE /\ category' = category \ {c}
            /\ response' = "deleted:Category"
            /\ UNCHANGED <<organization, product, alert_rule, product_alert_rule, zone,
                           device, measurement, alert_event>>
    /\ StoreStep

DeleteProduct(p) ==
    /\ p \in DOMAIN product
    /\ IF ProtectProduct(p) # {}
       THEN Reject("ProtectedError:Product")
       ELSE /\ product' = Without(product, {p})
            /\ product_alert_rule' = Without(product_alert_rule, CascadeLinksOfProduct(p))
            /\ response' = "deleted:Product"
            /\ UNCHANGED <<organization, category, alert_rule, zone, device,
                           measurement, alert_event>>
    /\ StoreStep

DeleteAlertRule(r) ==
    /\ r \in DOMAIN alert_rule
    /\ IF ProtectAlertRule(r) # {}
       THEN Reject("ProtectedError:AlertRule")
       ELSE /\ alert_rule' = Without(alert_rule, {r})
            /\ product_alert_rule' = Without(product_alert_rule, CascadeLinksOfAlertRule(r))
            /\ measurement' = SetNullTriggered(r)
            /\ response' = "deleted:AlertRule"
            /\ UNCHANGED <<organization, category, product, zone, device, alert_event>>
    /\ StoreStep

DeleteProductAlertRule(l) ==
    /\ l \in DOMAIN product_alert_rule
    /\ product_alert_rule' = Without(product_alert_rule, {l})
    /\ response' = "deleted:ProductAlertRule"
    /\ UNCHANGED <<organization, category, product, alert_rule, zone, device,
                   measurement, alert_event>>
    /\ StoreStep

DeleteZone(z) ==
    /\ z \in DOMAIN zone
    /\ IF ProtectZone(z) # {}
       THEN Reject("ProtectedError:Zone")
       ELSE /\ zone' = Without(zone, {z})
            /\ response' = "deleted:Zone"
            /\ UNCHANGED <<organization, category, product, alert_rule,
                           product_alert_rule, device, measurement, alert_event>>
    /\ StoreStep

DeleteDevice(d) ==
    /\ d \in DOMAIN device
    /\ device' = Without(device, {d})
    /\ measurement' = Without(measurement, CascadeMeasurements(d))
    /\ alert_event' = Without(alert_event, CascadeAlertEvents(d))
    /\ response' = "deleted:Device"
    /\ UNCHANGED <<organization, category, product, alert_rule, product_alert_rule, zone>>
    /\ StoreStep

DeleteMeasurement(m) ==
    /\ m \in DOMAIN measurement
    /\ measurement' = Without(measurement, {m})
    /\ response' = "deleted:Measurement"
    /\ UNCHANGED <<organization, category, product, alert_rule, product_alert_rule, zone,
                   device, alert_event>>
    /\ StoreStep

DeleteAlertEvent(e) ==
    /\ e \in DOMAIN alert_event
    /\ alert_event' = Without(alert_event, {e})
    /\ response' = "deleted:AlertEvent"
    /\ UNCHANGED <<organization, category, product, alert_rule, product_alert_rule, zone,
                   device, measurement>>
    /\ StoreStep

\* ---- AlertRule.effective_thresholds_for -----------------------------------
\* AlertRule.objects.get(pk=r): a fresh in-memory instance, without _par_cache
LoadAlertRule(r) ==
    /\ r \in DOMAIN alert_rule
    /\ rule_obj' = {[id |-> r,
                     default_min_threshold |-> alert_rule[r].default_min_threshold,
                     default_max_threshold |-> alert_rule[r].default_max_threshold,
                     par_cache |-> Null]}
    /\ ret' = {}
    /\ UNCHANGED <<tables, response, lookups>>
    /\ UNCHANGED web

\* (mutation of CacheHit: the memo is never found)
CacheHitNever(obj, p) == FALSE

\* (mutation of CacheHit: the product of the memo is not compared)
CacheHitAnyProduct(obj, p) == obj.par_cache # Null

\* par and par.get("product_id") == product.id and par.get("alert_rule_id") == self.id
CacheHit(obj, p) ==
    \E par \in obj.par_cache : par.product_id = p /\ par.alert_rule_id = obj.id

\* ProductAlertRule.objects.filter(product=product, alert_rule=self).first()
\* (Meta.ordering product_id, alert_rule_id; the lowest pk among equals)
FirstLink(p, r) ==
    LET found == {l \in DOMAIN product_alert_rule :
                    product_alert_rule[l].product = p /\ product_alert_rule[l].alert_rule = r}
    IN  IF found = {} THEN Null
        ELSE {product_alert_rule[CHOOSE l \in found : \A k \in found : l <= k]}

\* (mutation of FullOverride: one threshold is enough)
FullOverrideEither(link) == link.min_threshold # Null \/ link.max_threshold # Null

\* link.min_threshold is not None and link.max_threshold is not None
FullOverride(link) == link.min_threshold # Null /\ link.max_threshold # Null

\* the value returned for product p, with the return statement that produced it
Returned(p, mn, mx, src, again) ==
    {[product |-> p, min |-> mn, max |-> mx, source |-> src, repeat |-> again]}

\* the call repeats the previous one: same product, nothing happened in between
Repeats(p) == \E c \in ret : c.product = p

EffectiveThresholdsFor(p) ==
    /\ \E obj \in rule_obj :
         IF CacheHit(obj, p)
         THEN /\ \E par \in obj.par_cache :
                    ret' = Returned(p, par.min, par.max, "memo", Repeats(p))
              /\ UNCHANGED <<rule_obj, lookups>>
         ELSE /\ lookups < MaxLookups
              /\ lookups' = lookups + 1
              /\ LET link == FirstLink(p, obj.id)
                 IN  IF \E l \in link : FullOverride(l)
                     THEN \E l \in link :
                            /\ rule_obj' = {[obj EXCEPT !.par_cache =
                                   {[product_id |-> p, alert_rule_id |-> obj.id,
                                     min |-> l.min_threshold, max |-> l.max_threshold]}]}
                            /\ ret' = Returned(p, l.min_threshold, l.max_threshold,
                                               "link", Repeats(p))
                     ELSE /\ ret' = Returned(p, obj.default_min_threshold,
                                             obj.default_max_threshold,
                                             "defaults", Repeats(p))
                          /\ UNCHANGED rule_obj
    /\ UNCHANGED <<tables, response>>
    /\ UNCHANGED web

\* ---- the resolver over a catalogue of products, rules and links ------------
NextResolver ==
    \/ \E c \in CategoryIds : CreateCategory(c)
    \/ \E id \in ProductIds, c \in CategoryIds : CreateProduct(id, c)
    \/ \E id \in AlertRuleIds, mn \in OptThreshold, mx \in OptThreshold :
            CreateAlertRule(id, mn, mx)
    \/ \E id \in LinkIds, p \in ProductIds, r \in AlertRuleIds,
           mn \in OptThreshold, mx \in OptThreshold :
            CreateProductAlertRule(id, p, r, mn, mx)
    \/ \E id \in LinkIds, mn \in OptThreshold, mx \in OptThreshold :
            UpdateProductAlertRule(id, mn, mx)
    \/ \E l \in LinkIds : DeleteProductAlertRule(l)
    \/ \E r \in AlertRuleIds : LoadAlertRule(r)
    \/ \E p \in ProductIds : EffectiveThresholdsFor(p)

SpecResolver == Init /\ [][NextResolver]_vars

\* ---- the catalogue alone: rules and links inserted and updated --------------
NextCatalog ==
    \/ \E c \in CategoryIds : CreateCategory(c)
    \/ \E id \in ProductIds, c \in CategoryIds : CreateProduct(id, c)
    \/ \E id \in AlertRuleIds, mn \in OptThreshold, mx \in OptThreshold :
            CreateAlertRule(id, mn, mx)
    \/ \E id \in AlertRuleIds, mn \in OptThreshold, mx \in OptThreshold :
            UpdateAlertRule(id, mn, mx)
    \/ \E id \in LinkIds, p \in ProductIds, r \in AlertRuleIds,
           mn \in OptThreshold, mx \in OptThreshold :
            CreateProductAlertRule(id, p, r, mn, mx)
    \/ \E id \in LinkIds, mn \in OptThreshold, mx \in OptThreshold :
            UpdateProductAlertRule(id, mn, mx)
    \/ \E l \in LinkIds : DeleteProductAlertRule(l)
    \/ \E r \in AlertRuleIds : DeleteAlertRule(r)

SpecCatalog == Init /\ [][NextCatalog]_vars

\* ---- the store alone: every insert and delete, thresholds left NULL -------
NextStore ==
    \/ \E o \in OrganizationIds : CreateOrganization(o)
    \/ \E c \in CategoryIds : CreateCategory(c)
    \/ \E id \in ProductIds, c \in CategoryIds : CreateProduct(id, c)
    \/ \E id \in AlertRuleIds : CreateAlertRule(id, Null, Null)
    \/ \E id \in LinkIds, p \in ProductIds, r \in AlertRuleIds :
            CreateProductAlertRule(id, p, r, Null, Null)
    \/ \E id \in ZoneIds, o \in OrganizationIds, n \in Names : CreateZone(id, o, n)
    \/ \E id \in DeviceIds, o \in OrganizationIds, z \in ZoneIds, p \in ProductIds,
           n \in Names : CreateDevice(id, o, z, p, n)
    \/ \E id \in MeasurementIds, d \in DeviceIds, e \in Energies,
           a \in Optional(AlertRuleIds) : CreateMeasurement(id, d, e, a)
    \/ \E id \in AlertEventIds, d \in DeviceIds, r \in AlertRuleIds :
            CreateAlertEvent(id, d, r)
    \/ \E o \in OrganizationIds : DeleteOrganization(o)
    \/ \E c \in CategoryIds : DeleteCategory(c)
    \/ \E p \in ProductIds : DeleteProduct(p)
    \/ \E r \in AlertRuleIds : DeleteAlertRule(r)
    \/ \E l \in LinkIds : DeleteProductAlertRule(l)
    \/ \E z \in ZoneIds : DeleteZone(z)
    \/ \E d \in DeviceIds : DeleteDevice(d)
    \/ \E m \in MeasurementIds : DeleteMeasurement(m)
    \/ \E e \in AlertEventIds : DeleteAlertEvent(e)

SpecStore == Init /\ [][NextStore]_vars

\* ---- the web layer of the monitoreo project --------------------------------
RefIds == 1..NRef
Consumptions == 0..MaxConsumption
Chars == {"a", " "}
\* the strings a request can carry in a text field
NameStrings == UNION {[1..n -> Chars] : n \in 0..MaxNameLen}

RECURSIVE StripLeft(_)
StripLeft(s) == IF Len(s) > 0 /\ Head(s) = " " THEN StripLeft(Tail(s)) ELSE s

RECURSIVE StripRight(_)
StripRight(s) ==
    IF Len(s) > 0 /\ s[Len(s)] = " " THEN StripRight(SubSeq(s, 1, Len(s) - 1)) ELSE s

\* str.strip()
Strip(s) == StripRight(StripLeft(s))

Required == "This field is required."
InvalidChoice == "Select a valid choice. That choice is not one of the available choices."

\* forms.CharField of a models.CharField(max_length=100): the value is
\* stripped, an empty value is refused (max_length is beyond MaxNameLen)
CharFieldErrors(raw) == IF Strip(raw) = <<>> THEN {Required} ELSE {}

\* forms.ModelChoiceField of a ForeignKey: the key must be one of the rows;
\* a missing value is refused unless the column is blank=True
ModelChoiceFieldErrors(raw, rows, required) ==
    IF raw = Null THEN (IF required THEN {Required} ELSE {})
    ELSE IF raw \subseteq rows THEN {} ELSE {InvalidChoice}

\* forms.IntegerField / forms.DecimalField of a column without blank=True
NumberFieldErrors(raw) == IF raw = Null THEN {Required} ELSE {}

\* (mutation of clean_name: the length of the name is not checked)
clean_name_unchecked(name) == {}

\* DeviceForm.clean_name
clean_name(name) ==
    IF Len(name) < 3 THEN {"The name must have at least 3 characters"} ELSE {}

\* what a POST to create_device can carry
DeviceFormData ==
    [name : NameStrings, category : Optional(RefIds), zone : Optional(RefIds),
     max_consumption : Optional(Consumptions), organization : Optional(RefIds)]

\* DeviceForm(data).errors as pairs <<field, message>>: each field is cleaned
\* by its form field, and clean_name runs when the field itself raised nothing
DeviceFormErrors(data) ==
    LET name == IF CharFieldErrors(data.name) # {}
                THEN CharFieldErrors(data.name)
                ELSE clean_name(Strip(data.name))
    IN  {<<"name", m>> : m \in name}
        \cup {<<"category", m>> :
                 m \in ModelChoiceFieldErrors(data.category, devices_category, TRUE)}
        \cup {<<"zone", m>> : m \in ModelChoiceFieldErrors(data.zone, devices_zone, TRUE)}
        \cup {<<"max_consumption", m>> : m \in NumberFieldErrors(data.max_consumption)}
        \cup {<<"organization", m>> :
                 m \in ModelChoiceFieldErrors(data.organization, devices_organization, TRUE)}

\* the row DeviceForm(data).save() inserts
DeviceFormInstance(data) ==
    [name |-> Strip(data.name),
     category |-> CHOOSE c \in data.category : TRUE,
     zone |-> CHOOSE z \in data.zone : TRUE,
     max_consumption |-> CHOOSE w \in data.max_consumption : TRUE,
     organization |-> CHOOSE o \in data.organization : TRUE]

\* the primary key an AutoField gives the next row (no view deletes a row)
NextPk(table) == Cardinality(DOMAIN table) + 1

\* render(request, template, context)
Render(view, template, errors, object) ==
    [view |-> view, kind |-> "render", target |-> template,
     errors |-> errors, object |-> object]

\* redirect(name)
Redirect(view, name) ==
    [view |-> view, kind |-> "redirect", target |-> name, errors |-> {}, object |-> {}]

\* an exception that leaves the view: Http404 is answered by Django with the
\* "not found" page, any other exception is an unhandled error of the request
Raise(view, exception) ==
    [view |-> view, kind |-> exception, target |-> "none", errors |-> {}, object |-> {}]

\* the views and forms leave the EcoEnergy store and the resolver alone
WebStep == UNCHANGED <<tables, response, rule_obj, ret, lookups>>

\* monitoreo/devices/views.py create_device, request.method == "POST"
create_device_POST(data) ==
    /\ IF DeviceFormErrors(data) = {}
       THEN /\ Cardinality(DOMAIN devices_device) < NDevicesDevice
            /\ devices_device' = With(devices_device, NextPk(devices_device),
                                      DeviceFormInstance(data))
            /\ http' = Redirect("create_device", "list_devices")
       ELSE /\ http' = Render("create_device", "devices/create.html",
                              DeviceFormErrors(data), {})
            /\ UNCHANGED devices_device
    /\ UNCHANGED <<devices_organization, devices_category, devices_zone,
                   dispositivos_categoria, dispositivos_zona, dispositivos_dispositivo>>
    /\ WebStep

\* monitoreo/devices/views.py create_device, any other method: unbound form
create_device_GET ==
    /\ http' = Render("create_device", "devices/create.html", {}, {})
    /\ UNCHANGED web_tables
    /\ WebStep

\* get_object_or_404(Device, id=device_id): the row is there
get_object_or_404(table, id) == id \in DOMAIN table

\* monitoreo/devices/views.py device_detail
device_detail(device_id) ==
    /\ IF get_object_or_404(devices_device, device_id)
       THEN http' = Render("device_detail", "devices/detail.html", {}, {device_id})
       ELSE http' = Raise("device_detail", "Http404")
    /\ UNCHANGED web_tables
    /\ WebStep

\* monitoreo/dispositivos/views.py dispositivo: Dispositivo.objects.get raises
\* Dispositivo.DoesNotExist when no row matches, and nothing catches it
dispositivo(dispositivo_id) ==
    /\ IF dispositivo_id \in DOMAIN dispositivos_dispositivo
       THEN http' = Render("dispositivo", "dispositivos/inicio.html", {}, {dispositivo_id})
       ELSE http' = Raise("dispositivo", "DoesNotExist")
    /\ UNCHANGED web_tables
    /\ WebStep

\* the function clean_nombre written inside DispositivoForm.Meta: an attribute
\* of the options class, which the form never calls when it cleans "nombre"
Meta_clean_nombre(nombre) ==
    IF Len(nombre) < 3 THEN {"El nombre debe tener almenos 3 caracteres"} ELSE {}

\* what a DispositivoForm can be bound to
DispositivoFormData ==
    [nombre : NameStrings, categoria : Optional(RefIds), zona : Optional(RefIds),
     consumo_maximo : Optional(Consumptions)]

\* DispositivoForm(data).errors: the form class has no clean_<field> method
DispositivoFormErrors(data) ==
    {<<"nombre", m>> : m \in CharFieldErrors(data.nombre)}
    \cup {<<"categoria", m>> :
             m \in ModelChoiceFieldErrors(data.categoria, dispositivos_categoria, FALSE)}
    \cup {<<"zona", m>> :
             m \in ModelChoiceFieldErrors(data.zona, dispositivos_zona, FALSE)}
    \cup {<<"consumo_maximo", m>> : m \in NumberFieldErrors(data.consumo_maximo)}

\* the row DispositivoForm(data).save() inserts
DispositivoFormInstance(data) ==
    [nombre |-> Strip(data.nombre), categoria |-> data.categoria, zona |-> data.zona,
     consumo_maximo |-> CHOOSE w \in data.consumo_maximo : TRUE]

\* form = DispositivoForm(data); if form.is_valid(): form.save()
DispositivoFormSave(data) ==
    /\ IF DispositivoFormErrors(data) = {}
       THEN /\ Cardinality(DOMAIN dispositivos_dispositivo) < NDispositivo
            /\ dispositivos_dispositivo' =
                   With(dispositivos_dispositivo, NextPk(dispositivos_dispositivo),
                        DispositivoFormInstance(data))
            /\ http' = [view |-> "DispositivoForm", kind |-> "saved", target |-> "none",
                        errors |-> {}, object |-> {NextPk(dispositivos_dispositivo)}]
       ELSE /\ http' = [view |-> "DispositivoForm", kind |-> "invalid",
                        target |-> "none", errors |-> DispositivoFormErrors(data),
                        object |-> {}]
            /\ UNCHANGED dispositivos_dispositivo
    /\ UNCHANGED <<devices_organization, devices_category, devices_zone, devices_device,
                   dispositivos_categoria, dispositivos_zona>>
    /\ WebStep

\* The rows the forms can refer to are there or not; no view of the project
\* inserts or deletes them.
InitDevices ==
    /\ EmptyStore
    /\ devices_organization \in SUBSET RefIds
    /\ devices_category \in SUBSET RefIds
    /\ devices_zone \in SUBSET RefIds
    /\ devices_device = Empty
    /\ dispositivos_categoria = {}
    /\ dispositivos_zona = {}
    /\ dispositivos_dispositivo = Empty
    /\ http = NoResponse

InitDispositivos ==
    /\ EmptyStore
    /\ devices_organization = {}
    /\ devices_category = {}
    /\ devices_zone = {}
    /\ devices_device = Empty
    /\ dispositivos_categoria \in SUBSET RefIds
    /\ dispositivos_zona \in SUBSET RefIds
    /\ dispositivos_dispositivo = Empty
    /\ http = NoResponse

InitWeb ==
    /\ EmptyStore
    /\ devices_organization \in SUBSET RefIds
    /\ devices_category \in SUBSET RefIds
    /\ devices_zone \in SUBSET RefIds
    /\ devices_device = Empty
    /\ dispositivos_categoria \in SUBSET RefIds
    /\ dispositivos_zona \in SUBSET RefIds
    /\ dispositivos_dispositivo = Empty
    /\ http = NoResponse

\* ---- create_device and device_detail over the Device table ------------------
NextDevices ==
    \/ \E data \in DeviceFormData : create_device_POST(data)
    \/ create_device_GET
    \/ \E device_id \in 1..(NDevicesDevice + 1) : device_detail(device_id)

SpecDevices == InitDevices /\ [][NextDevices]_vars

\* ---- DispositivoForm and dispositivo over the Dispositivo table -------------
NextDispositivos ==
    \/ \E data \in DispositivoFormData : DispositivoFormSave(data)
    \/ \E dispositivo_id \in 1..(NDispositivo + 1) : dispositivo(dispositivo_id)

SpecDispositivos == InitDispositivos /\ [][NextDispositivos]_vars

\* ---- the two detail views side by side: rows are created with every choice
\* ---- and number given, so that only the text field decides the validity ----
DeviceFormDataComplete ==
    {data \in DeviceFormData :
        /\ data.category # Null /\ data.zone # Null /\ data.organization # Null
        /\ data.max_consumption # Null}

DispositivoFormDataComplete ==
    {data \in DispositivoFormData :
        data.categoria = Null /\ data.zona = Null /\ data.consumo_maximo # Null}

NextDetail ==
    \/ \E data \in DeviceFormDataComplete : create_device_POST(data)
    \/ \E data \in DispositivoFormDataComplete : DispositivoFormSave(data)
    \/ \E device_id \in 1..(NDevicesDevice + 1) : device_detail(device_id)
    \/ \E dispositivo_id \in 1..(NDispositivo + 1) : dispositivo(dispositivo_id)

SpecDetail == InitWeb /\ [][NextDetail]_vars

\* ==== claims about effective_thresholds_for (under SpecResolver) =============
\* The link row the store holds for (p, r), as a set: empty when there is none.
StoredLink(p, r) ==
    {product_alert_rule[l] : l \in {k \in DOMAIN product_alert_rule :
        product_alert_rule[k].product = p /\ product_alert_rule[k].alert_rule = r}}

\* ret is cleared by every store operation and by LoadAlertRule, so a non-empty
\* ret is the value returned by a call made against the store as it now is.

\* C1: when the store holds a link for (P, R) with both thresholds set, the
\* call R.effective_thresholds_for(P) returns exactly the link's pair.
C1_FullOverrideReturned ==
    \A c \in ret, obj \in rule_obj : \A l \in StoredLink(c.product, obj.id) :
        (l.min_threshold # Null /\ l.max_threshold # Null)
            => (c.min = l.min_threshold /\ c.max = l.max_threshold)

\* C2: when the store holds a link for (P, R) with exactly one threshold set,
\* the call returns the rule's defaults in full.
C2_PartialOverrideFallsBack ==
    \A c \in ret, obj \in rule_obj : \A l \in StoredLink(c.product, obj.id) :
        ((l.min_threshold = Null) # (l.max_threshold = Null))
            => (c.min = obj.default_min_threshold /\ c.max = obj.default_max_threshold)

\* C3: when the store holds no link for (P, R), the call returns the rule's
\* defaults (null or not).
C3_NoLinkReturnsDefaults ==
    \A c \in ret, obj \in rule_obj :
        StoredLink(c.product, obj.id) = {}
            => (c.min = obj.default_min_threshold /\ c.max = obj.default_max_threshold)

\* C4 as stated: a call repeated for the same product, nothing having happened
\* in between, returns the same pair and issues no lookup, whatever the first
\* call resolved to.
C4_RepeatNeverLooksUp ==
    [][\A c \in ret, d \in ret' :
          c.product = d.product
              => (d.min = c.min /\ d.max = c.max /\ lookups' = lookups)]_vars

\* C4 amended: the repeated call returns the same pair; it issues no lookup
\* when the first call returned an override (from the link or from the memo),
\* and it issues the lookup again when the first call fell back to the defaults.
C4_RepeatSameResultMemoOnOverride ==
    [][\A c \in ret, d \in ret' :
          c.product = d.product
              => /\ d.min = c.min /\ d.max = c.max
                 /\ c.source \in {"link", "memo"} => lookups' = lookups
                 /\ c.source = "defaults" => lookups' = lookups + 1]_vars

\* C4 witness: a second call in succession was served from the memo.
C4_Witness ==
    \E c \in ret : c.repeat /\ c.source = "memo" /\ lookups > 0

\* ==== claims about deletion (under SpecStore) ================================
ProtectedErrors ==
    {"ProtectedError:Organization", "ProtectedError:Category", "ProtectedError:Product",
     "ProtectedError:AlertRule", "ProtectedError:Zone"}

\* C5 as stated: a Product referenced by a link or by a Device is still a row
\* after any step.
C5_ReferencedProductNeverDeleted ==
    [][\A p \in DOMAIN product :
          (LinksOfProduct(p) # {} \/ DevicesOfProduct(p) # {})
              => p \in DOMAIN product']_vars

\* C5 amended: a Product referenced by a Device is never deleted (its delete
\* is rejected with ProtectedError and changes nothing); a Product referenced
\* only by links is deleted, and its links with it.
C5_DeviceProtectsProduct ==
    [][\A p \in DOMAIN product :
          /\ DevicesOfProduct(p) # {}
                => /\ p \in DOMAIN product' /\ product'[p] = product[p]
                   /\ DeleteProduct(p)
                        => (response' = "ProtectedError:Product" /\ UNCHANGED tables)
          /\ (DevicesOfProduct(p) = {} /\ DeleteProduct(p))
                => /\ p \notin DOMAIN product'
                   /\ response' = "deleted:Product"
                   /\ DOMAIN product_alert_rule' =
                          DOMAIN product_alert_rule \ LinksOfProduct(p)]_vars

\* C5 witness: the delete of a Product that has a Device and a link was rejected.
C5_Witness ==
    /\ response = "ProtectedError:Product"
    /\ \E p \in DOMAIN product : DevicesOfProduct(p) # {} /\ LinksOfProduct(p) # {}

\* C6: a delete that hits a blocking reference is rejected and leaves every
\* table unchanged (no cascade, no SET_NULL happens on the way).
C6_BlockedDeleteChangesNothing ==
    [][/\ response' \in ProtectedErrors => UNCHANGED tables
       /\ \A c \in category :
            (ProductsOfCategory(c) # {} /\ DeleteCategory(c))
                => (response' = "ProtectedError:Category" /\ UNCHANGED tables)
       /\ \A o \in organization :
            ((ZonesOfOrganization(o) # {} \/ DevicesOfOrganization(o) # {})
                /\ DeleteOrganization(o))
                => (response' = "ProtectedError:Organization" /\ UNCHANGED tables)
       /\ \A z \in DOMAIN zone :
            (DevicesOfZone(z) # {} /\ DeleteZone(z))
                => (response' = "ProtectedError:Zone" /\ UNCHANGED tables)
       /\ \A p \in DOMAIN product :
            (DevicesOfProduct(p) # {} /\ DeleteProduct(p))
                => (response' = "ProtectedError:Product" /\ UNCHANGED tables)
       /\ \A r \in DOMAIN alert_rule :
            (AlertEventsOfAlertRule(r) # {} /\ DeleteAlertRule(r))
                => (response' = "ProtectedError:AlertRule" /\ UNCHANGED tables)]_vars

\* C6 witness: the delete of an AlertRule that has an AlertEvent was rejected
\* while the rule had a link and a Measurement pointing at it.
C6_Witness ==
    /\ response = "ProtectedError:AlertRule"
    /\ \E r \in DOMAIN alert_rule :
          /\ AlertEventsOfAlertRule(r) # {}
          /\ LinksOfAlertRule(r) # {}
          /\ MeasurementsOfAlertRule(r) # {}

\* C7: deleting a Device is never blocked and removes that Device with the
\* Measurements and AlertEvents that reference it, and nothing else.
C7_DeviceDeleteCascadesExactly ==
    [][\A d \in DOMAIN device :
          /\ DeleteDevice(d) => response' = "deleted:Device"
          /\ (DeleteDevice(d) \/ d \notin DOMAIN device')
                => /\ device' = Without(device, {d})
                   /\ measurement' = Without(measurement, MeasurementsOfDevice(d))
                   /\ alert_event' = Without(alert_event, AlertEventsOfDevice(d))
                   /\ UNCHANGED <<organization, category, product, alert_rule,
                                  product_alert_rule, zone>>]_vars

\* C7 witness: a Device was deleted and another Device still has its
\* Measurement and its AlertEvent.
C7_Witness ==
    /\ response = "deleted:Device"
    /\ \E d \in DOMAIN device :
          MeasurementsOfDevice(d) # {} /\ AlertEventsOfDevice(d) # {}

\* C8: deleting an AlertRule without AlertEvents succeeds; no Measurement is
\* removed by it; the Measurements it had triggered keep device and energy and
\* get triggered_alert = NULL, the others are untouched.
C8_RuleDeleteNullsMeasurements ==
    [][\A r \in DOMAIN alert_rule :
          /\ (AlertEventsOfAlertRule(r) = {} /\ DeleteAlertRule(r))
                => (response' = "deleted:AlertRule" /\ r \notin DOMAIN alert_rule')
          /\ DeleteAlertRule(r) => DOMAIN measurement' = DOMAIN measurement
          /\ r \notin DOMAIN alert_rule'
                => /\ DOMAIN measurement' = DOMAIN measurement
                   /\ \A m \in DOMAIN measurement :
                        /\ measurement'[m].device = measurement[m].device
                        /\ measurement'[m].energy_kwh = measurement[m].energy_kwh
                        /\ measurement'[m].triggered_alert =
                              measurement[m].triggered_alert \ {r}]_vars

\* C8 witness: an AlertRule was deleted, no rule is left, and a Measurement
\* without triggered alert is still in the store.
C8_Witness ==
    /\ response = "deleted:AlertRule"
    /\ alert_rule = Empty
    /\ \E m \in DOMAIN measurement : measurement[m].triggered_alert = Null

\* ==== claims about the constraints ==========================================
\* both bounds set and min > max
MinAboveMax(mn, mx) == \E a \in mn, b \in mx : a > b

ThresholdsOrdered ==
    /\ \A r \in DOMAIN alert_rule :
          ~MinAboveMax(alert_rule[r].default_min_threshold,
                       alert_rule[r].default_max_threshold)
    /\ \A l \in DOMAIN product_alert_rule :
          ~MinAboveMax(product_alert_rule[l].min_threshold,
                       product_alert_rule[l].max_threshold)

\* C9 (under SpecCatalog): every persisted AlertRule and ProductAlertRule with
\* both bounds set has min <= max (initially and after every step); an insert
\* or update with min > max is rejected and changes nothing; a rule with a
\* NULL bound is accepted.
C9_ThresholdsOrdered ==
    /\ ThresholdsOrdered
    /\ [][ThresholdsOrdered' /\ \A mn \in OptThreshold, mx \in OptThreshold :
            /\ \A id \in AlertRuleIds :
                 /\ ((CreateAlertRule(id, mn, mx) \/ UpdateAlertRule(id, mn, mx))
                        /\ MinAboveMax(mn, mx))
                      => /\ response' = "IntegrityError:alert_rule_default_min_lte_max"
                         /\ UNCHANGED tables
                 /\ ((CreateAlertRule(id, mn, mx) \/ UpdateAlertRule(id, mn, mx))
                        /\ (mn = Null \/ mx = Null))
                      => /\ response' = "ok"
                         /\ id \in DOMAIN alert_rule'
                         /\ alert_rule'[id].default_min_threshold = mn
                         /\ alert_rule'[id].default_max_threshold = mx
            /\ \A id \in LinkIds :
                 /\ ((UpdateProductAlertRule(id, mn, mx)
                         \/ \E p \in ProductIds, r \in AlertRuleIds :
                               CreateProductAlertRule(id, p, r, mn, mx))
                        /\ MinAboveMax(mn, mx))
                      => /\ response' = "IntegrityError:par_min_lte_max"
                         /\ UNCHANGED tables
                 /\ (UpdateProductAlertRule(id, mn, mx) /\ (mn = Null \/ mx = Null))
                      => /\ response' = "ok"
                         /\ product_alert_rule'[id].min_threshold = mn
                         /\ product_alert_rule'[id].max_threshold = mx]_vars

\* C9 witness: an AlertRule with min > max was refused by the check constraint
\* while a rule with a NULL bound and a link with a NULL bound are stored.
C9_Witness ==
    /\ response = "IntegrityError:alert_rule_default_min_lte_max"
    /\ \E r \in DOMAIN alert_rule :
          alert_rule[r].default_min_threshold # Null
          /\ alert_rule[r].default_max_threshold = Null
    /\ \E l \in DOMAIN product_alert_rule :
          product_alert_rule[l].min_threshold = Null

NoDuplicateKeys ==
    /\ \A k, l \in DOMAIN product_alert_rule :
          (product_alert_rule[k].product = product_alert_rule[l].product
           /\ product_alert_rule[k].alert_rule = product_alert_rule[l].alert_rule)
              => k = l
    /\ \A y, z \in DOMAIN zone :
          (zone[y].organization = zone[z].organization /\ zone[y].name = zone[z].name)
              => y = z
    /\ \A d, e \in DOMAIN device :
          (device[d].organization = device[e].organization
           /\ device[d].name = device[e].name)
              => d = e

\* C10 (under SpecStore): initially and after every step, no two
\* ProductAlertRule rows share (product, alert_rule), no two Zones and no two
\* Devices share (organization, name); an
\* insert that would duplicate the key is rejected and changes nothing; a name
\* used in one Organization is accepted in another.
C10_UniqueKeys ==
    /\ NoDuplicateKeys
    /\ [][ /\ NoDuplicateKeys'
           /\ \A id \in LinkIds \ DOMAIN product_alert_rule :
              \A p \in ProductIds, r \in AlertRuleIds :
                (StoredLink(p, r) # {} /\ CreateProductAlertRule(id, p, r, Null, Null))
                   => (response' = "IntegrityError:uix_product_alert_unique"
                       /\ UNCHANGED tables)
           /\ \A id \in ZoneIds \ DOMAIN zone :
              \A o \in OrganizationIds, n \in Names :
                LET used == \E z \in DOMAIN zone :
                                zone[z].organization = o /\ zone[z].name = n
                IN  /\ (used /\ CreateZone(id, o, n))
                         => (response' =
                                "IntegrityError:unique(zone.organization,zone.name)"
                             /\ UNCHANGED tables)
                    /\ (~used /\ o \in organization /\ CreateZone(id, o, n))
                         => (response' = "ok" /\ id \in DOMAIN zone')
           /\ \A id \in DeviceIds \ DOMAIN device :
              \A o \in OrganizationIds, n \in Names, z \in ZoneIds, p \in ProductIds :
                LET used == \E d \in DOMAIN device :
                                device[d].organization = o /\ device[d].name = n
                IN  /\ (used /\ CreateDevice(id, o, z, p, n))
                         => (response' =
                                "IntegrityError:unique(device.organization,device.name)"
                             /\ UNCHANGED tables)
                    /\ (~used /\ o \in organization /\ z \in DOMAIN zone
                           /\ p \in DOMAIN product /\ CreateDevice(id, o, z, p, n))
                         => (response' = "ok" /\ id \in DOMAIN device')]_vars

\* C10 witness: a duplicate link was refused while two Zones and two Devices
\* with the same name live in different Organizations.
C10_Witness ==
    /\ response = "IntegrityError:uix_product_alert_unique"
    /\ \E y, z \in DOMAIN zone :
          zone[y].name = zone[z].name /\ zone[y].organization # zone[z].organization
    /\ \E d, e \in DOMAIN device :
          device[d].name = device[e].name
          /\ device[d].organization # device[e].organization

\* ==== claims about the views and forms of the monitoreo project ==============
\* the answer is the create page with an error on the field "name"
CreatePageWithNameError ==
    /\ http'.view = "create_device"
    /\ http'.kind = "render"
    /\ http'.target = "devices/create.html"
    /\ \E e \in http'.errors : e[1] = "name"

\* C11 (under SpecDevices): a POST to create_device whose name has fewer than
\* 3 characters persists no Device and is answered with the create page
\* carrying an error on the field name (no redirect, no exception); a Device
\* is persisted only by a POST whose form is valid, which adds that one row
\* and is answered with a redirect to the device list; a GET persists nothing.
C11_ShortNameRejectedBeforeSave ==
    [][/\ (CreatePageWithNameError /\ UNCHANGED web_tables)
            \/ ~\E data \in DeviceFormData :
                   Len(data.name) < 3 /\ create_device_POST(data)
       /\ devices_device' # devices_device
            => \E data \in DeviceFormData :
                  /\ create_device_POST(data)
                  /\ DeviceFormErrors(data) = {}
                  /\ Len(Strip(data.name)) >= 3
                  /\ http' = Redirect("create_device", "list_devices")
                  /\ devices_device' = With(devices_device, NextPk(devices_device),
                                            DeviceFormInstance(data))
       /\ create_device_GET
            => (UNCHANGED web_tables /\ http'.kind = "render" /\ http'.errors = {})]_vars

\* C11 witness: after a Device was persisted, a POST with every other field
\* valid was answered with the create page and clean_name's error on name.
C11_Witness ==
    /\ devices_device # Empty
    /\ http.view = "create_device"
    /\ http.kind = "render"
    /\ http.errors = {<<"name", "The name must have at least 3 characters">>}

\* C12 (under SpecDetail): a detail view asked for an identifier that matches
\* no row answers "not found" (Http404): it renders no page and does not end
\* in an unhandled exception. This holds of device_detail and of dispositivo.
C12_MissingIdIsNotFound ==
    [][/\ \A device_id \in 1..(NDevicesDevice + 1) :
            (device_id \notin DOMAIN devices_device /\ device_detail(device_id))
                => http'.kind = "Http404"
       /\ \A dispositivo_id \in 1..(NDispositivo + 1) :
            (dispositivo_id \notin DOMAIN dispositivos_dispositivo
                /\ dispositivo(dispositivo_id))
                => http'.kind = "Http404"]_vars

\* C13 (under SpecDispositivos): validating a DispositivoForm whose nombre has
\* fewer than 3 characters leaves the form invalid with an error on the field
\* nombre ("El nombre debe tener almenos 3 caracteres" when a nombre was given
\* at all), and saves nothing: no stored Dispositivo has a nombre of fewer
\* than 3 characters.
C13_ShortNombreRejected ==
    /\ [](\A d \in DOMAIN dispositivos_dispositivo :
             Len(dispositivos_dispositivo[d].nombre) >= 3)
    /\ [][\A data \in DispositivoFormData :
            (Len(data.nombre) < 3 /\ DispositivoFormSave(data))
                => /\ http'.kind = "invalid"
                   /\ \E e \in http'.errors : e[1] = "nombre"
                   /\ \A m \in Meta_clean_nombre(Strip(data.nombre)) :
                         Strip(data.nombre) # <<>> => <<"nombre", m>> \in http'.errors
                   /\ UNCHANGED dispositivos_dispositivo]_vars

\* ==== referential integrity of the store (under SpecStore) ===================
\* C14: whatever inserts and deletes were accepted or rejected, no reference
\* dangles: every foreign key names an existing row, and every
\* Measurement.triggered_alert is NULL or an existing AlertRule.
C14_NoDanglingReference ==
    /\ \A p \in DOMAIN product : product[p].category \in category
    /\ \A z \in DOMAIN zone : zone[z].organization \in organization
    /\ \A d \in DOMAIN device :
          /\ device[d].organization \in organization
          /\ device[d].zone \in DOMAIN zone
          /\ device[d].product \in DOMAIN product
    /\ \A l \in DOMAIN product_alert_rule :
          /\ product_alert_rule[l].product \in DOMAIN product
          /\ product_alert_rule[l].alert_rule \in DOMAIN alert_rule
    /\ \A m \in DOMAIN measurement :
          /\ measurement[m].device \in DOMAIN device
          /\ measurement[m].triggered_alert \subseteq DOMAIN alert_rule
    /\ \A e \in DOMAIN alert_event :
          /\ alert_event[e].device \in DOMAIN device
          /\ alert_event[e].alert_rule \in DOMAIN alert_rule

\* C14 witness: a Product was deleted (with what cascades from it) while a
\* link, a Device, a Measurement with its triggered alert and an AlertEvent
\* remain, each holding references.
C14_Witness ==
    /\ response = "deleted:Product"
    /\ product_alert_rule # Empty
    /\ device # Empty
    /\ alert_event # Empty
    /\ \E m \in DOMAIN measurement : measurement[m].triggered_alert # Null

\* ==== the memo of an AlertRule instance (under SpecResolver) =================
\* what a resolution without memo returns for (p, obj): the pair of the stored
\* link when both its thresholds are set, the given defaults otherwise
Uncached(p, r, dmin, dmax) ==
    IF \E l \in StoredLink(p, r) : l.min_threshold # Null /\ l.max_threshold # Null
    THEN {<<l.min_threshold, l.max_threshold>> : l \in StoredLink(p, r)}
    ELSE {<<dmin, dmax>>}

MemoCurrent ==
    \A obj \in rule_obj : \A par \in obj.par_cache :
        \E l \in StoredLink(par.product_id, obj.id) :
            l.min_threshold = par.min /\ l.max_threshold = par.max

====
